---- MODULE Spec2Model ----
(***************************************************************************)
(* Model of the streaming chat proxy (claude-chat/server.js and its        *)
(* branded sibling entry point): request normalisation, identity-probe     *)
(* interception, the upstream call with its abort controller, the          *)
(* incremental SSE re-framing loop and the rewriting of text deltas.       *)
(*                                                                         *)
(* A JavaScript string is a sequence of code units, each written as a      *)
(* one-character TLA+ string ("U+00E9" and "U+FFFD" name the two non-ASCII *)
(* code units that occur).  A byte is written as its ASCII character, or   *)
(* as "xC3" / "xA9" for the two bytes of the UTF-8 encoding of U+00E9.     *)
(***************************************************************************)
EXTENDS Integers, Sequences, FiniteSets, TLC

VARIABLES
    variant,      \* which entry point runs: "brand" (with BRAND_MODEL) or "redact" (claude-chat/server.js)
    body,         \* req.body
    pc,           \* position of the handler: the await it is suspended at
    fetchCalls,   \* number of upstream calls dispatched
    listening,    \* req.on("close", ...) has been registered
    aborted,      \* controller.signal.aborted
    clientClosed, \* the client connection has closed
    upstream,     \* the Response fetch resolved with
    upBytes,      \* the bytes the upstream body stream will deliver
    pos,          \* number of bytes of upBytes the reader has delivered
    pending,      \* bytes the streaming TextDecoder holds back
    buffer,       \* `buffer` of pipeAnthropicSSEToPlainText
    res,          \* the client response
    log,          \* console.error entries
    hist,         \* history: what is remembered about the run for the properties
    params,       \* the fields model, temperature and max_tokens of req.body
    env,          \* process.env: the value of MODEL ("" when it is not set)
    normalized,   \* `normalized` of the handler (the empty sequence: null)
    request,      \* the JSON body the handler gave to fetch
    sessions      \* the requests of the two-request specification

vars == << variant, body, pc, fetchCalls, listening, aborted, clientClosed,
           upstream, upBytes, pos, pending, buffer, res, log, hist,
           params, env, normalized, request, sessions >>

\* what the handler reads of its request and its process, and never writes
given == << variant, body, params, env >>

\* what the handler computes before the upstream call
prepared == << normalized, request >>

----------------------------------------------------------------------------
(* Strings *)

UpperCase == << "A", "B", "C", "D", "E", "F", "G", "H", "I", "J", "K", "L", "M",
                "N", "O", "P", "Q", "R", "S", "T", "U", "V", "W", "X", "Y", "Z" >>

LowerCase == << "a", "b", "c", "d", "e", "f", "g", "h", "i", "j", "k", "l", "m",
                "n", "o", "p", "q", "r", "s", "t", "u", "v", "w", "x", "y", "z" >>

Digits == { "0", "1", "2", "3", "4", "5", "6", "7", "8", "9" }

\* \w of a JavaScript regular expression
WordChars == { UpperCase[i] : i \in 1..26 } \cup { LowerCase[i] : i \in 1..26 }
             \cup Digits \cup { "_" }

\* \s of a regular expression and the characters String.prototype.trim strips
WhiteSpace == { " ", "\t", "\r", "\n" }

\* case folding of the i flag
Lower(c) ==
    IF \E i \in 1..26 : UpperCase[i] = c
    THEN LowerCase[CHOOSE i \in 1..26 : UpperCase[i] = c]
    ELSE c

Last(s) == s[Len(s)]

\* the concatenation of the strings ss[lo .. hi], by halves
RECURSIVE ConcatRange(_, _, _)
ConcatRange(ss, lo, hi) ==
    IF lo > hi THEN << >>
    ELSE IF lo = hi THEN ss[lo]
    ELSE LET mid == (lo + hi) \div 2
         IN  ConcatRange(ss, lo, mid) \o ConcatRange(ss, mid + 1, hi)

\* the concatenation of a sequence of strings
Concat(ss) == ConcatRange(ss, 1, Len(ss))

\* s.slice(from - 1): the code units from index `from` (1-based) on
SliceFrom(s, from) == SubSeq(s, from, Len(s))

\* s.startsWith(p)
StartsWith(s, p) == Len(s) >= Len(p) /\ SubSeq(s, 1, Len(p)) = p

\* s.trim()
Trim(s) ==
    LET keep == { i \in 1..Len(s) : s[i] \notin WhiteSpace }
    IN  IF keep = {} THEN << >>
        ELSE SubSeq(s, CHOOSE i \in keep : \A j \in keep : i <= j,
                       CHOOSE i \in keep : \A j \in keep : i >= j)

Min(S) == CHOOSE x \in S : \A y \in S : x <= y

\* the index of the first occurrence of sep in s at or after from, 0 when none
IndexOf(s, sep, from) ==
    LET hits == { i \in from..(Len(s) - Len(sep) + 1) :
                    SubSeq(s, i, i + Len(sep) - 1) = sep }
    IN  IF hits = {} THEN 0 ELSE Min(hits)

\* s.split(sep) for a non-empty separator: the pieces between the leftmost,
\* non-overlapping occurrences of sep; always at least one piece
RECURSIVE Split(_, _)
Split(s, sep) ==
    LET i == IndexOf(s, sep, 1)
    IN  IF i = 0 THEN << s >>
        ELSE << SubSeq(s, 1, i - 1) >> \o Split(SliceFrom(s, i + Len(sep)), sep)

\* lines.filter((line) => line.startsWith(p))
RECURSIVE FilterPrefix(_, _)
FilterPrefix(lines, p) ==
    IF lines = << >> THEN << >>
    ELSE (IF StartsWith(Head(lines), p) THEN << Head(lines) >> ELSE << >>)
         \o FilterPrefix(Tail(lines), p)

\* there is a word boundary (\b) in s just before index i (1 .. Len(s) + 1)
IsWordAt(s, i) == i \in 1..Len(s) /\ s[i] \in WordChars
WordBoundary(s, i) == IsWordAt(s, i - 1) # IsWordAt(s, i)

\* the lower-case literal lit matches s at index i, ignoring case
MatchesAt(s, i, lit) ==
    /\ i + Len(lit) - 1 <= Len(s)
    /\ \A k \in 1..Len(lit) : Lower(s[i + k - 1]) = lit[k]

\* \b lit \b matches s at index i
WordMatchesAt(s, i, lit) ==
    WordBoundary(s, i) /\ MatchesAt(s, i, lit) /\ WordBoundary(s, i + Len(lit))

Max(S) == CHOOSE x \in S : \A y \in S : x >= y

----------------------------------------------------------------------------
(* Configuration *)

BRAND_MODEL == << "C", "l", "a", "u", "d", "e", "X" >>

BRAND_MAKER == << "M", " ", "A", "l", "k", "i", "n", "d", "i" >>

MadeBy == << "m", "a", "d", "e", " ", "b", "y", " " >>

\* `I am ${BRAND_MODEL}, made by ${BRAND_MAKER}.`
BrandSentence ==
    << "I", " ", "a", "m", " " >> \o BRAND_MODEL \o << ",", " " >> \o MadeBy
    \o BRAND_MAKER \o << "." >>

\* the placeholder of the redacting entry point
ThisAssistant ==
    << "t", "h", "i", "s", " ", "a", "s", "s", "i", "s", "t", "a", "n", "t" >>

\* the safeString ceiling of a message's content
MaxContent == 12000

----------------------------------------------------------------------------
(* The content rewriter *)

\* the literals of /\b(Claude|Anthropic|OpenAI|ChatGPT|GPT[-\s]?\d*)\b/gi
VendorNames ==
    { << "c", "l", "a", "u", "d", "e" >>,
      << "a", "n", "t", "h", "r", "o", "p", "i", "c" >>,
      << "o", "p", "e", "n", "a", "i" >>,
      << "c", "h", "a", "t", "g", "p", "t" >> }

Gpt == << "g", "p", "t" >>

\* the number of digits of s from index i on (\d*, greedy)
RECURSIVE DigitRun(_, _)
DigitRun(s, i) ==
    IF i <= Len(s) /\ s[i] \in Digits THEN 1 + DigitRun(s, i + 1) ELSE 0

\* The index just after the match of GPT[-\s]?\d*\b at i, 0 when it fails:
\* the separator is tried before its absence and more digits before fewer.
GptEnd(s, i) ==
    IF ~MatchesAt(s, i, Gpt) THEN 0
    ELSE LET j       == i + 3
             hasSep  == j <= Len(s) /\ s[j] \in ({ "-" } \cup WhiteSpace)
             withSep == IF hasSep
                        THEN { j + 1 + k : k \in 0..DigitRun(s, j + 1) }
                        ELSE {}
             without == { j + k : k \in 0..DigitRun(s, j) }
             okSep   == { e \in withSep : WordBoundary(s, e) }
             okNo    == { e \in without : WordBoundary(s, e) }
         IN  IF okSep # {} THEN Max(okSep)
             ELSE IF okNo # {} THEN Max(okNo)
             ELSE 0

\* the index just after the match of the vendor pattern at i, 0 when none
VendorEnd(s, i) ==
    IF ~WordBoundary(s, i) THEN 0
    ELSE LET lits == { n \in VendorNames : MatchesAt(s, i, n)
                                           /\ WordBoundary(s, i + Len(n)) }
         IN  IF lits # {} THEN i + Len(CHOOSE n \in lits : TRUE)
             ELSE GptEnd(s, i)

\* s.replace(vendor pattern, repl), from index i on
RECURSIVE ReplaceVendor(_, _, _)
ReplaceVendor(s, i, repl) ==
    IF i > Len(s) THEN << >>
    ELSE LET e == VendorEnd(s, i)
         IN  IF e > 0 THEN repl \o ReplaceVendor(s, e, repl)
             ELSE << s[i] >> \o ReplaceVendor(s, i + 1, repl)

\* the phrases of /\b(trained by|developed by|powered by|built by|created by)\b/
AttributionPhrases ==
    { << "t", "r", "a", "i", "n", "e", "d", " ", "b", "y" >>,
      << "d", "e", "v", "e", "l", "o", "p", "e", "d", " ", "b", "y" >>,
      << "p", "o", "w", "e", "r", "e", "d", " ", "b", "y" >>,
      << "b", "u", "i", "l", "t", " ", "b", "y" >>,
      << "c", "r", "e", "a", "t", "e", "d", " ", "b", "y" >> }

\* the branded entry point also matches "made by"
BrandAttributionPhrases ==
    AttributionPhrases \cup { << "m", "a", "d", "e", " ", "b", "y" >> }

\* the first index at or after i holding "." or "\n", Len(s) + 1 when none
RECURSIVE ClauseStop(_, _)
ClauseStop(s, i) ==
    IF i > Len(s) \/ s[i] \in { ".", "\n" } THEN i ELSE ClauseStop(s, i + 1)

\* the index just after the match of \b(phrase)\b[^.\n]*[.\n]? at i, 0 when none
AttributionEnd(s, i, phrases) ==
    LET hit == { p \in phrases : WordMatchesAt(s, i, p) }
    IN  IF hit = {} THEN 0
        ELSE LET stop == ClauseStop(s, i + Len(CHOOSE p \in hit : TRUE))
             IN  IF stop <= Len(s) THEN stop + 1 ELSE stop

\* s.replace(attribution pattern, repl), from index i on
RECURSIVE ReplaceAttribution(_, _, _, _)
ReplaceAttribution(s, i, phrases, repl) ==
    IF i > Len(s) THEN << >>
    ELSE LET e == AttributionEnd(s, i, phrases)
         IN  IF e > 0 THEN repl \o ReplaceAttribution(s, e, phrases, repl)
             ELSE << s[i] >> \o ReplaceAttribution(s, i + 1, phrases, repl)

AISafetyCompany ==
    << "a", "i", " ", "s", "a", "f", "e", "t", "y", " ", "c", "o", "m", "p", "a", "n", "y" >>

\* s.replace(/\bAI safety company\b/gi, repl), from index i on
RECURSIVE ReplacePhrase(_, _, _, _)
ReplacePhrase(s, i, phrase, repl) ==
    IF i > Len(s) THEN << >>
    ELSE IF WordMatchesAt(s, i, phrase)
         THEN repl \o ReplacePhrase(s, i + Len(phrase), phrase, repl)
         ELSE << s[i] >> \o ReplacePhrase(s, i + 1, phrase, repl)

enforceBranding(text) ==
    IF text = << >> THEN text
    ELSE LET out1 == ReplaceVendor(text, 1, BRAND_MODEL)
             out2 == ReplaceAttribution(out1, 1, BrandAttributionPhrases,
                                        MadeBy \o BRAND_MAKER \o << ".", " " >>)
         IN  ReplacePhrase(out2, 1, AISafetyCompany, << "t", "e", "a", "m" >>)

enforceNoProviderLeak(text) ==
    IF text = << >> THEN text
    ELSE LET out1 == ReplaceVendor(text, 1, ThisAssistant)
         IN  ReplaceAttribution(out1, 1, AttributionPhrases, << >>)

\* the rewriter the running entry point applies to a text delta
Rewrite(v, text) ==
    IF v = "brand" THEN enforceBranding(text) ELSE enforceNoProviderLeak(text)

----------------------------------------------------------------------------
(* Request normalisation and the identity probe *)

\* A message of body.messages is [role, pad, text]: its content is `pad`
\* spaces followed by the code units `text` (null content is the empty
\* string, as String(x ?? "") makes it); role "null" is a null element.

\* a safeString that never cuts
safeStringUncut(c, max) == [pad |-> c.pad, text |-> c.text]

\* safeString(x, max): the content cut to max code units
safeString(c, max) ==
    IF c.pad + Len(c.text) > max
    THEN IF c.pad >= max
         THEN [pad |-> max, text |-> << >>]
         ELSE [pad |-> c.pad, text |-> SubSeq(c.text, 1, max - c.pad)]
    ELSE [pad |-> c.pad, text |-> c.text]

\* a loop that skips the null elements only, whatever the role of the others
RECURSIVE normalizeFromAnyRole(_, _)
normalizeFromAnyRole(messages, i) ==
    IF i > Len(messages) THEN << >>
    ELSE LET m    == messages[i]
             text == Trim(safeString(m, MaxContent).text)
         IN  IF m.role = "null" \/ text = << >>
             THEN normalizeFromAnyRole(messages, i + 1)
             ELSE << [role |-> m.role, text |-> text] >>
                  \o normalizeFromAnyRole(messages, i + 1)

\* the loop of normalizeMessages over the elements from index i on
RECURSIVE normalizeFrom(_, _)
normalizeFrom(messages, i) ==
    IF i > Len(messages) THEN << >>
    ELSE LET m    == messages[i]
             text == Trim(safeString(m, MaxContent).text)
         IN  IF m.role # "user" /\ m.role # "assistant"
             THEN normalizeFrom(messages, i + 1)
             ELSE IF text = << >>
             THEN normalizeFrom(messages, i + 1)
             ELSE << [role |-> m.role, text |-> text] >>
                  \o normalizeFrom(messages, i + 1)

\* normalizeMessages(body.messages); the empty sequence stands for null
normalizeMessages(b) ==
    IF ~b.isArray THEN << >> ELSE normalizeFrom(b.messages, 1)

\* the literals the identity-probe pattern expands to
ProbePhrases ==
    { << "w", "h", "o", " ", "a", "r", "e", " ", "y", "o", "u" >>,
      << "w", "h", "o", " ", "m", "a", "d", "e", " ", "y", "o", "u" >>,
      << "w", "h", "o", " ", "b", "u", "i", "l", "t", " ", "y", "o", "u" >>,
      << "w", "h", "a", "t", " ", "m", "o", "d", "e", "l", " ", "a", "r", "e", " ", "y", "o", "u" >>,
      << "w", "h", "a", "t", " ", "l", "l", "m", " ", "a", "r", "e", " ", "y", "o", "u" >>,
      << "w", "h", "i", "c", "h", " ", "m", "o", "d", "e", "l" >>,
      << "a", "r", "e", " ", "y", "o", "u", " ", "c", "l", "a", "u", "d", "e" >>,
      << "a", "r", "e", " ", "y", "o", "u", " ", "c", "h", "a", "t", "g", "p", "t" >>,
      << "a", "r", "e", " ", "y", "o", "u", " ", "g", "p", "t" >>,
      << "a", "n", "t", "h", "r", "o", "p", "i", "c" >>,
      << "o", "p", "e", "n", "a", "i" >>,
      << "c", "l", "a", "u", "d", "e" >>,
      << "c", "h", "a", "t", "g", "p", "t" >>,
      << "g", "p", "t" >> }

\* the probe pattern without its i flag
isIdentityProbeCaseSensitive(normalizedMessages) ==
    LET last == IF normalizedMessages = << >> THEN << >>
                ELSE Last(normalizedMessages).text
    IN  \E i \in 1..Len(last) : \E p \in ProbePhrases :
            /\ WordBoundary(last, i)
            /\ i + Len(p) - 1 <= Len(last)
            /\ SubSeq(last, i, i + Len(p) - 1) = p
            /\ WordBoundary(last, i + Len(p))

\* a probe test that looks at every message of the list
isIdentityProbeAnyMessage(normalizedMessages) ==
    \E k \in 1..Len(normalizedMessages) :
        \E i \in 1..Len(normalizedMessages[k].text) : \E p \in ProbePhrases :
            WordMatchesAt(normalizedMessages[k].text, i, p)

isIdentityProbe(normalizedMessages) ==
    LET last == IF normalizedMessages = << >> THEN << >>
                ELSE Last(normalizedMessages).text
    IN  \E i \in 1..Len(last) : \E p \in ProbePhrases : WordMatchesAt(last, i, p)

----------------------------------------------------------------------------
(* The parameters of the upstream request *)

\* A JavaScript value of a field of req.body: its type, for a number whether
\* it is finite, NaN or an infinity, a finite number counted in tenths, and
\* the text of a string.
JsValue(type, kind, tenths, str) ==
    [type |-> type, kind |-> kind, tenths |-> tenths, str |-> str]

Undefined == JsValue("undefined", "", 0, "")

Null == JsValue("object", "", 0, "")

Str(s) == JsValue("string", "", 0, s)

\* the number whole + tenth / 10
Num(whole, tenth) == JsValue("number", "finite", whole * 10 + tenth, "")

NaN == JsValue("number", "NaN", 0, "")

PosInfinity == JsValue("number", "+Infinity", 0, "")

NegInfinity == JsValue("number", "-Infinity", 0, "")

\* Math.max(a, b) of two numbers neither of which is NaN
MathMax(a, b) ==
    IF a.kind = "+Infinity" \/ b.kind = "+Infinity" THEN PosInfinity
    ELSE IF a.kind = "-Infinity" THEN b
    ELSE IF b.kind = "-Infinity" THEN a
    ELSE IF a.tenths >= b.tenths THEN a ELSE b

\* Math.min(a, b) of two numbers neither of which is NaN
MathMin(a, b) ==
    IF a.kind = "-Infinity" \/ b.kind = "-Infinity" THEN NegInfinity
    ELSE IF a.kind = "+Infinity" THEN b
    ELSE IF b.kind = "+Infinity" THEN a
    ELSE IF a.tenths <= b.tenths THEN a ELSE b

\* Math.floor(a)
MathFloor(a) ==
    IF a.kind = "finite" THEN Num(a.tenths \div 10, 0) ELSE a

\* a clampNumber that has no lower bound
clampNumberAbove(n, min, max, fallback) ==
    IF n.type # "number" \/ n.kind = "NaN" THEN fallback
    ELSE MathMin(max, n)

clampNumber(n, min, max, fallback) ==
    IF n.type # "number" \/ n.kind = "NaN" THEN fallback
    ELSE MathMin(max, MathMax(min, n))

ALLOWED_MODELS == { "claude-haiku-4-5", "claude-sonnet-4-5", "claude-opus-4-5" }

\* process.env.MODEL || "claude-haiku-4-5"
DEFAULT_MODEL(e) == IF e.MODEL # "" THEN e.MODEL ELSE "claude-haiku-4-5"

\* ALLOWED_MODELS.has(body.model) ? body.model : DEFAULT_MODEL
requestedModel(p, e) ==
    IF p.model.type = "string" /\ p.model.str \in ALLOWED_MODELS
    THEN p.model.str
    ELSE DEFAULT_MODEL(e)

\* const temperature = clampNumber(body.temperature, 0, 1, 0.3)
temperature(p) == clampNumber(p.temperature, Num(0, 0), Num(1, 0), Num(0, 3))

\* const max_tokens = Math.floor(clampNumber(body.max_tokens, 64, 1500, 800))
max_tokens(p) ==
    MathFloor(clampNumber(p.max_tokens, Num(64, 0), Num(1500, 0), Num(800, 0)))

\* the JSON body of the upstream call
UpstreamRequest(msgs, p, e) ==
    [model       |-> requestedModel(p, e),
     messages    |-> msgs,
     max_tokens  |-> max_tokens(p),
     temperature |-> temperature(p)]

\* no upstream call was made
NoRequest ==
    [model |-> "", messages |-> << >>, max_tokens |-> Undefined,
     temperature |-> Undefined]

----------------------------------------------------------------------------
(* The SSE pipe *)

LeadBytes == { "xC3" }

ContinuationBytes == { "xA9" }

\* The UTF-8 decoder's handling of one byte b when `holding` says that a lead
\* byte is held back: the code units it emits.  A lead byte is held back
\* and emits nothing by itself; a malformed sequence decodes to U+FFFD, and
\* the byte that broke it is decoded again from the initial state.
DecodeByte(holding, b) ==
    LET fresh == IF b \in LeadBytes THEN << >>
                 ELSE IF b \in ContinuationBytes THEN << "U+FFFD" >>
                 ELSE << b >>
    IN  IF holding
        THEN IF b \in ContinuationBytes THEN << "U+00E9" >>
             ELSE << "U+FFFD" >> \o fresh
        ELSE fresh

\* decoder.decode(value, { stream: true }) with the bytes `held` held back
\* from the earlier calls: the text decoded and the bytes held back now.
\* A lead byte is held after it is read, whatever preceded it.
decode(held, bytes) ==
    LET n == Len(bytes)
        holdingAt(i) == IF i = 1 THEN held # << >> ELSE bytes[i - 1] \in LeadBytes
    IN  [text    |-> Concat([i \in 1..n |-> DecodeByte(holdingAt(i), bytes[i])]),
         pending |-> IF n = 0 THEN held
                     ELSE IF bytes[n] \in LeadBytes THEN << bytes[n] >>
                     ELSE << >>]

DataPrefix == << "d", "a", "t", "a", ":", " " >>

DoneSentinel == << "[", "D", "O", "N", "E", "]" >>

ErrorSentinel ==
    << "\n", "\n", "[", "e", "r", "r", "o", "r", "]", " ", "S", "o", "m", "e",
       "t", "h", "i", "n", "g", " ", "w", "e", "n", "t", " ", "w", "r", "o", "n",
       "g", "." >>

\* JSON.parse, on documents written in a reduced syntax, "{" K text "}":
\*   {D<text>}  {"type":"content_block_delta","delta":{"type":"text_delta","text":"<text>"}}
\*   {J<text>}  {"type":"content_block_delta","delta":{"type":"input_json_delta","partial_json":"<text>"}}
\*   {E<text>}  {"type":"error","error":{"message":"<text>"}}
\*   {S<text>}  {"type":"message_stop"}
\* Anything else, a truncated document included, is a SyntaxError (ok = FALSE).
ParseJSON(s) ==
    LET n     == Len(s)
        wellFormed ==
            /\ n >= 3
            /\ s[1] = "{"
            /\ s[n] = "}"
            /\ s[2] \in { "D", "J", "E", "S" }
            /\ \A i \in 3..(n - 1) : s[i] \notin { "{", "}", "\n" }
    IN  IF ~wellFormed
        THEN [ok |-> FALSE, type |-> "", textIsString |-> FALSE, text |-> << >>]
        ELSE [ok |-> TRUE,
              type |-> CASE s[2] \in { "D", "J" } -> "content_block_delta"
                         [] s[2] = "E" -> "error"
                         [] OTHER -> "message_stop",
              textIsString |-> s[2] = "D",
              text |-> IF s[2] = "D" THEN SubSeq(s, 3, n - 1) ELSE << >>]

\* a loop body that forwards text deltas as they come, not rewritten
ProcessDataLineRaw(v, dataLine) ==
    LET payload == ParseJSON(Trim(SliceFrom(dataLine, Len(DataPrefix) + 1)))
    IN  IF ~payload.ok THEN << >>
        ELSE IF payload.type = "error" THEN << ErrorSentinel >>
        ELSE IF payload.textIsString /\ Len(payload.text) > 0
        THEN << payload.text >>
        ELSE << >>

\* what one data line makes the loop body write
ProcessDataLine(v, dataLine) ==
    LET jsonStr == Trim(SliceFrom(dataLine, Len(DataPrefix) + 1))
        payload == ParseJSON(jsonStr)
    IN  IF jsonStr = << >> \/ jsonStr = DoneSentinel THEN << >>
        ELSE IF ~payload.ok THEN << >>
        ELSE (IF /\ payload.type = "content_block_delta"
                 /\ payload.textIsString
                 /\ Len(payload.text) > 0
              THEN << Rewrite(v, payload.text) >>
              ELSE << >>)
             \o (IF payload.type = "error" THEN << ErrorSentinel >> ELSE << >>)

RECURSIVE ProcessDataLines(_, _)
ProcessDataLines(v, dataLines) ==
    IF dataLines = << >> THEN << >>
    ELSE ProcessDataLine(v, Head(dataLines)) \o ProcessDataLines(v, Tail(dataLines))

\* the data lines of a frame the branded entry point handles: all of them
DataLinesAll(frame) == FilterPrefix(Split(frame, << "\n" >>), DataPrefix)

\* the data lines of a frame claude-chat/server.js handles: the first (find)
DataLinesFirst(frame) ==
    LET all == FilterPrefix(Split(frame, << "\n" >>), DataPrefix)
    IN  IF all = << >> THEN << >> ELSE << Head(all) >>

\* the writes of the body of `for (const frame of frames)` for one frame
ProcessFrame(v, frame) ==
    ProcessDataLines(v, IF v = "brand" THEN DataLinesAll(frame)
                        ELSE DataLinesFirst(frame))

RECURSIVE ProcessFrames(_, _)
ProcessFrames(v, frames) ==
    IF frames = << >> THEN << >>
    ELSE ProcessFrame(v, Head(frames)) \o ProcessFrames(v, Tail(frames))

Delimiter == << "\n", "\n" >>

\* a pipe that forgets the incomplete piece between chunks
RetainedBufferDropped(frames) == << >>

\* buffer = frames.pop() || ""
RetainedBuffer(frames) == Last(frames)

\* a loop over every piece of the split, the unfinished last one included
CompleteFramesAll(frames) == frames

\* `frames` after the pop
CompleteFrames(frames) == SubSeq(frames, 1, Len(frames) - 1)

\* a split of the decoded text alone: the buffer assigned to (= for +=)
SplitChunkOnly(held, buf, value) == Split(decode(held, value).text, Delimiter)

\* `frames` before the pop: the buffer with the decoded text of the chunk
\* `value` appended, split on the delimiter
SplitBuffer(held, buf, value) ==
    Split(buf \o decode(held, value).text, Delimiter)

\* One turn of the while loop for the chunk `value`: the decoder's held-back
\* bytes, the buffer and the writes made.
PipeStep(v, held, buf, value) ==
    LET dec    == decode(held, value)
        frames == SplitBuffer(held, buf, value)
    IN  [pending |-> dec.pending,
         buffer  |-> RetainedBuffer(frames),
         writes  |-> ProcessFrames(v, CompleteFrames(frames))]

----------------------------------------------------------------------------
(* Inputs *)

\* at most this many blocks make an upstream stream of SpecPipe
MaxFrames == 2

\* a chunk holds at most this many bytes, or all the bytes that are left
MaxChunk == 2

\* the lengths of the chunk a read may deliver when `left` bytes are left
ChunkLengths(left) == { n \in 1..left : n <= MaxChunk \/ n = left }

Variants == { "brand", "redact" }

Msg(role, pad, text) == [role |-> role, pad |-> pad, text |-> text]

Hello == << "h", "e", "l", "l", "o" >>

WhatModel ==
    << "W", "h", "a", "t", " ", "m", "o", "d", "e", "l", " ", "a", "r", "e", " ", "y", "o", "u", "?" >>

UseChatGPT == << "I", " ", "u", "s", "e", " ", "C", "h", "a", "t", "G", "P", "T" >>

HelloBody == [isArray |-> TRUE, messages |-> << Msg("user", 0, Hello) >>]

\* request bodies no message of which survives normalisation
InvalidBodies ==
    { [isArray |-> FALSE, messages |-> << >>],
      [isArray |-> TRUE, messages |-> << >>],
      [isArray |-> TRUE, messages |-> << Msg("null", 0, << >>) >>],
      [isArray |-> TRUE, messages |-> << Msg("system", 0, Hello) >>],
      [isArray |-> TRUE, messages |-> << Msg("user", 0, << " ", "\n" >>) >>],
      [isArray |-> TRUE, messages |-> << Msg("user", MaxContent, WhatModel),
                                         Msg("tool", 0, Hello) >>] }

\* request bodies whose last surviving message is an identity probe
ProbeBodies ==
    { [isArray |-> TRUE, messages |-> << Msg("user", 0, WhatModel) >>],
      [isArray |-> TRUE, messages |-> << Msg("user", 0, Hello),
                                         Msg("assistant", 2, UseChatGPT),
                                         Msg("system", 0, Hello) >>] }

\* request bodies that go upstream in both entry points
PlainBodies ==
    { HelloBody,
      [isArray |-> TRUE, messages |-> << Msg("user", 0, WhatModel),
                                         Msg("null", 0, << >>),
                                         Msg("assistant", MaxContent - 2, Hello) >>] }

Bodies == InvalidBodies \cup ProbeBodies \cup PlainBodies

\* a body.messages of the request specification has at most this many elements
MaxMessages == 3

\* the elements body.messages is made of in the request specification
MessageMenu ==
    { Msg("user", 0, Hello),
      Msg("user", 0, WhatModel),
      Msg("assistant", 0, UseChatGPT),
      Msg("assistant", 1, Hello \o << " ", "\n" >>),
      Msg("user", MaxContent - 2, Hello),
      Msg("assistant", MaxContent, WhatModel),
      Msg("user", 0, << " ", "\n" >>),
      Msg("system", 0, WhatModel),
      Msg("null", 0, << >>) }

RECURSIVE MessageSeqs(_)
\* the sequences of at most n elements of MessageMenu
MessageSeqs(n) ==
    IF n = 0 THEN { << >> }
    ELSE LET shorter == MessageSeqs(n - 1)
         IN  shorter \cup { Append(ms, m) : ms \in shorter, m \in MessageMenu }

RequestBodies ==
    { [isArray |-> FALSE, messages |-> << >>] }
    \cup { [isArray |-> TRUE, messages |-> ms] : ms \in MessageSeqs(MaxMessages) }

\* a body without model, temperature and max_tokens
DefaultParams ==
    [model |-> Undefined, temperature |-> Undefined, max_tokens |-> Undefined]

ModelValues ==
    { Undefined, Null, Num(3, 0), Str("claude-haiku-4-5"), Str("claude-opus-4-5"),
      Str("gpt-4"), Str("") }

TemperatureValues ==
    { Undefined, Null, Str("x"), NaN, PosInfinity, NegInfinity,
      Num(-5, 0), Num(0, 0), Num(0, 5), Num(1, 0), Num(2, 0) }

MaxTokensValues ==
    { Undefined, Str("500"), NaN, PosInfinity,
      Num(10, 0), Num(64, 0), Num(64, 5), Num(500, 0), Num(500, 7),
      Num(1500, 0), Num(1500, 2), Num(5000, 0) }

ParamsMenu ==
    [model : ModelValues, temperature : TemperatureValues,
     max_tokens : MaxTokensValues]

\* process.env without MODEL
NoEnv == [MODEL |-> ""]

\* process.env: MODEL not set, set to a listed model, set to another one
Envs == { NoEnv, [MODEL |-> "claude-sonnet-4-5"], [MODEL |-> "claude-3-opus"] }

\* the requests of the request specification: every body.messages with the
\* parameters left out, and every combination of parameters with one message
Requests ==
    { << b, DefaultParams >> : b \in RequestBodies }
    \cup { << HelloBody, p >> : p \in ParamsMenu }

DataLine(json) == DataPrefix \o json

\* the blocks upstream streams are made of
BlockHi == DataLine(<< "{", "D", "H", "i", "}" >>) \o Delimiter

BlockGpt == DataLine(<< "{", "D", "G", "P", "T", "}" >>) \o Delimiter

BlockDigit == DataLine(<< "{", "D", "4", "xC3", "xA9", "}" >>) \o Delimiter

BlockTwoLines ==
    << ":", "\n" >> \o DataLine(<< "{", "D", "A", "}" >>) \o << "\n" >>
    \o DataLine(<< "{", "E", "%", "}" >>) \o Delimiter

BlockMalformed == DataLine(<< "{", "D" >>) \o Delimiter

BlockNewline == << "\n" >>

\* one frame of three data lines, the middle one of which is no JSON
BlockThreeLines ==
    DataLine(<< "{", "D", "A", "}" >>) \o << "\n" >>
    \o DataLine(<< "{", "D" >>) \o << "\n" >>
    \o DataLine(<< "{", "D", "B", "}" >>) \o Delimiter

Blocks ==
    { BlockHi, BlockGpt, BlockDigit, BlockTwoLines, BlockMalformed, BlockNewline }

\* what a stream may end with, after its last delimiter
Tails == { << >>, DataLine(<< "{", "D", "Z", "}" >>) \o << "\n" >> }

RECURSIVE BlockSeqs(_)
\* the concatenations of at most n blocks
BlockSeqs(n) ==
    IF n = 0 THEN { << >> }
    ELSE LET shorter == BlockSeqs(n - 1)
         IN  shorter \cup { s \o b : s \in shorter, b \in Blocks }

Streams == { s \o t : s \in BlockSeqs(MaxFrames), t \in Tails }

\* the streams of the full handler specification
HandlerStreams ==
    { << >>,
      BlockHi \o BlockTwoLines,
      BlockGpt \o BlockDigit \o DataLine(<< "{", "D", "Z", "}" >>),
      BlockMalformed \o BlockNewline \o BlockHi,
      BlockThreeLines,
      BlockHi \o BlockMalformed \o BlockGpt }

\* upstream-supplied error detail (the body of a failure, the message of an
\* error event or of an exception): code units that occur nowhere else
DetailUnits == { "%", "^" }

Details == { << u >> : u \in DetailUnits }

OkResponse(bytes) ==
    [ok |-> TRUE, status |-> 200, hasBody |-> TRUE, text |-> << >>, bytes |-> bytes]

\* a response that is not ok (status outside 200..299) or has no body
FailResponse(st, hasBody, text) ==
    [ok |-> st \in 200..299, status |-> st, hasBody |-> hasBody, text |-> text,
     bytes |-> << >>]

NoResponse == FailResponse(0, FALSE, << >>)

FailResponses ==
    { FailResponse(503, FALSE, << >>), FailResponse(204, FALSE, << >>) }
    \cup { FailResponse(500, TRUE, d) : d \in Details }

HandlerResponses == { OkResponse(b) : b \in HandlerStreams } \cup FailResponses

PipeResponses == { OkResponse(b) : b \in Streams }

----------------------------------------------------------------------------
(* The client response (http.ServerResponse, as Express extends it) *)

StreamingHeaders ==
    { << "Content-Type", "text/plain; charset=utf-8" >>,
      << "Cache-Control", "no-cache, no-transform" >>,
      << "X-Accel-Buffering", "no" >> }

UpstreamErrorBody ==
    << "U", "p", "s", "t", "r", "e", "a", "m", " ", "e", "r", "r", "o", "r" >>

ServerErrorBody ==
    << "S", "e", "r", "v", "e", "r", " ", "e", "r", "r", "o", "r" >>

\* JSON.stringify({ error: "Invalid messages format" })
InvalidMessagesJson ==
    << "{", "\"", "e", "r", "r", "o", "r", "\"", ":", "\"", "I", "n", "v", "a",
       "l", "i", "d", " ", "m", "e", "s", "s", "a", "g", "e", "s", " ", "f", "o",
       "r", "m", "a", "t", "\"", "}" >>

NewResponse ==
    [statusCode  |-> 200,     \* res.statusCode
     headers     |-> {},      \* the headers set with setHeader
     headersSent |-> FALSE,   \* res.headersSent
     wireStatus  |-> 0,       \* the status line sent to the client, 0: none yet
     wireHeaders |-> {},      \* the headers sent to the client
     writes      |-> << >>,   \* the body chunks handed to write and end, in order
     ended       |-> FALSE]   \* res.end has been called

\* res.setHeader(name, value)
setHeader(r, name, value) ==
    [r EXCEPT !.headers = { h \in @ : h[1] # name } \cup { << name, value >> }]

\* the three setHeader calls of a plain-text stream
setStreamingHeaders(r) ==
    setHeader(setHeader(setHeader(r, "Content-Type", "text/plain; charset=utf-8"),
                        "Cache-Control", "no-cache, no-transform"),
              "X-Accel-Buffering", "no")

\* res.flushHeaders(): the status line and the headers go out as they stand
flushHeaders(r) ==
    IF r.headersSent THEN r
    ELSE [r EXCEPT !.headersSent = TRUE,
                   !.wireStatus = r.statusCode,
                   !.wireHeaders = r.headers]

\* res.status(code): sets res.statusCode, whatever has been sent
status(r, code) == [r EXCEPT !.statusCode = code]

\* res.write(data)
write(r, data) ==
    IF r.ended THEN r
    ELSE [flushHeaders(r) EXCEPT !.writes = Append(@, data)]

RECURSIVE writeAll(_, _)
\* res.write of each element of datas, in order
writeAll(r, datas) ==
    IF datas = << >> THEN r ELSE writeAll(write(r, Head(datas)), Tail(datas))

\* res.end(data); the empty string stands for no argument
end(r, data) ==
    IF r.ended THEN r
    ELSE [(IF data = << >> THEN flushHeaders(r) ELSE write(r, data))
            EXCEPT !.ended = TRUE]

\* res.json(obj)
json(r, text) == end(setHeader(r, "Content-Type", "application/json; charset=utf-8"), text)

\* the bytes of the response body
Body(r) == Concat(r.writes)

----------------------------------------------------------------------------
(* The handler of POST /api/chat/stream *)

NoHistory ==
    [writesAtClose |-> -1,       \* Len(res.writes) when the client closed, -1: open
     caught        |-> FALSE,    \* the catch block has run
     sentAtThrow   |-> FALSE,    \* res.headersSent when the exception was caught
     writesAtThrow |-> -1,       \* Len(res.writes) when the exception was caught
     endCalls      |-> 0,        \* calls of res.end and res.json
     frames        |-> << >>]    \* the frames the pipe's for loop has been given

\* the state when the handler is entered, for requests (body and parameters)
\* of `requests` in a process with an environment of `envs`
InitOf(requests, envs) ==
    /\ variant \in Variants
    /\ \E r \in requests : body = r[1] /\ params = r[2]
    /\ env \in envs
    /\ normalized = << >>
    /\ request = NoRequest
    /\ pc = "start"
    /\ fetchCalls = 0
    /\ listening = FALSE
    /\ aborted = FALSE
    /\ clientClosed = FALSE
    /\ upstream = NoResponse
    /\ upBytes = << >>
    /\ pos = 0
    /\ pending = << >>
    /\ buffer = << >>
    /\ res = NewResponse
    /\ log = << >>
    /\ hist = NoHistory

\* no request of the two-request specification
NoSessions == << >>

InitWith(bodies) ==
    /\ InitOf({ << b, DefaultParams >> : b \in bodies }, { NoEnv })
    /\ sessions = NoSessions

Init == InitWith(Bodies)

\* whether this entry point answers identity probes itself
HasProbePolicy(v) == v = "brand"

\* normalization yields no message: 400
RejectInvalid ==
    /\ pc = "start"
    /\ normalizeMessages(body) = << >>
    /\ normalized' = normalizeMessages(body)
    /\ res' = json(status(res, 400), InvalidMessagesJson)
    /\ hist' = [hist EXCEPT !.endCalls = @ + 1]
    /\ pc' = "done"
    /\ UNCHANGED request
    /\ UNCHANGED << given, fetchCalls, listening, aborted, clientClosed,
                    upstream, upBytes, pos, pending, buffer, log, sessions >>

\* the branded reply to an identity probe
ReplyToProbe ==
    /\ pc = "start"
    /\ normalizeMessages(body) # << >>
    /\ HasProbePolicy(variant)
    /\ isIdentityProbe(normalizeMessages(body))
    /\ normalized' = normalizeMessages(body)
    /\ UNCHANGED request
    /\ res' = end(flushHeaders(setStreamingHeaders(res)), BrandSentence)
    /\ hist' = [hist EXCEPT !.endCalls = @ + 1]
    /\ pc' = "done"
    /\ UNCHANGED << given, fetchCalls, listening, aborted, clientClosed,
                    upstream, upBytes, pos, pending, buffer, log, sessions >>

\* the response as the handler leaves it before the upstream call
BeforeFetch(r) == flushHeaders(setStreamingHeaders(r))

\* headers, abort controller, and the call of fetch, up to its await
Dispatch ==
    /\ pc = "start"
    /\ normalizeMessages(body) # << >>
    /\ ~(HasProbePolicy(variant) /\ isIdentityProbe(normalizeMessages(body)))
    /\ normalized' = normalizeMessages(body)
    /\ request' = UpstreamRequest(normalized', params, env)
    /\ res' = BeforeFetch(res)
    /\ listening' = TRUE
    /\ fetchCalls' = fetchCalls + 1
    /\ pc' = "fetch"
    /\ UNCHANGED << given, aborted, clientClosed, upstream, upBytes,
                    pos, pending, buffer, log, hist, sessions >>

\* a close listener that does not reach the controller
AbortOnCloseUnwired(registered, wasAborted) == wasAborted

\* req.on("close", () => controller.abort()): the signal after a close
AbortOnClose(registered, wasAborted) == wasAborted \/ registered

\* req emits "close": the listener, if registered, aborts the controller
ClientClose ==
    /\ pc \in { "fetch", "text", "read" }
    /\ ~clientClosed
    /\ clientClosed' = TRUE
    /\ aborted' = AbortOnClose(listening, aborted)
    /\ hist' = [hist EXCEPT !.writesAtClose = Len(res.writes)]
    /\ UNCHANGED << given, pc, fetchCalls, listening, upstream, upBytes,
                    pos, pending, buffer, res, log,
                    prepared, sessions >>

\* a catch block that sends the exception's message
CatchLeaking(r, msg) ==
    end(IF ~r.headersSent THEN status(r, 500) ELSE r, msg)

\* the catch block: log, 500 unless the headers are out, end with a body
Catch(r, msg) ==
    end(IF ~r.headersSent THEN status(r, 500) ELSE r, ServerErrorBody)

\* what an exception with message `msg` leaves behind
Caught(msg) ==
    /\ log' = Append(log, [kind |-> "error", status |-> 0, detail |-> msg])
    /\ res' = Catch(res, msg)
    /\ hist' = [hist EXCEPT !.caught = TRUE,
                            !.sentAtThrow = res.headersSent,
                            !.writesAtThrow = Len(res.writes),
                            !.endCalls = @ + 1]
    /\ pc' = "done"

AbortError == << "A", "b", "o", "r", "t", "E", "r", "r", "o", "r" >>

\* the messages an await may reject with: the abort's once the signal is
\* aborted, a network failure's otherwise
Rejections == IF aborted THEN { AbortError } ELSE Details

\* fetch resolves with a response (it cannot once the signal is aborted)
FetchResolve(responses) ==
    /\ pc = "fetch"
    /\ ~aborted
    /\ \E r \in responses :
          /\ upstream' = r
          /\ upBytes' = r.bytes
          /\ pc' = IF ~r.ok \/ ~r.hasBody THEN "text" ELSE "read"
    /\ UNCHANGED << given, fetchCalls, listening, aborted, clientClosed,
                    pos, pending, buffer, res, log, hist,
                    prepared, sessions >>

\* fetch rejects
FetchReject ==
    /\ pc = "fetch"
    /\ \E msg \in Rejections : Caught(msg)
    /\ UNCHANGED << given, fetchCalls, listening, aborted, clientClosed,
                    upstream, upBytes, pos, pending, buffer,
                    prepared, sessions >>

\* the response to an upstream failure of status st and body errText
UpstreamFailed(r, st, errText) == end(status(r, 502), UpstreamErrorBody)

\* upstream.text() settles (a rejection reads as ""): log, then 502
ReportUpstreamError ==
    /\ pc = "text"
    /\ \E errText \in { upstream.text, << >> } :
          /\ aborted => errText = << >>
          /\ log' = Append(log, [kind |-> "upstream", status |-> upstream.status,
                                 detail |-> errText])
          /\ res' = UpstreamFailed(res, upstream.status, errText)
    /\ hist' = [hist EXCEPT !.endCalls = @ + 1]
    /\ pc' = "done"
    /\ UNCHANGED << given, fetchCalls, listening, aborted, clientClosed,
                    upstream, upBytes, pos, pending, buffer,
                    prepared, sessions >>

\* reader.read() resolves with the next n bytes: one turn of the while loop
ReadChunk ==
    /\ pc = "read"
    /\ ~aborted
    /\ \E n \in ChunkLengths(Len(upBytes) - pos) :
          LET step == PipeStep(variant, pending, buffer,
                               SubSeq(upBytes, pos + 1, pos + n))
          IN  /\ pos' = pos + n
              /\ pending' = step.pending
              /\ buffer' = step.buffer
              /\ res' = writeAll(res, step.writes)
              /\ hist' = [hist EXCEPT !.frames =
                             @ \o CompleteFrames(SplitBuffer(pending, buffer,
                                       SubSeq(upBytes, pos + 1, pos + n)))]
    /\ UNCHANGED << given, pc, fetchCalls, listening, aborted,
                    clientClosed, upstream, upBytes, log,
                    prepared, sessions >>

\* a handler that returns after the pipe without ending the response
ReadDoneWithoutEnd ==
    /\ pc = "read"
    /\ ~aborted
    /\ pos = Len(upBytes)
    /\ pc' = "done"
    /\ UNCHANGED << given, fetchCalls, listening, aborted, clientClosed,
                    upstream, upBytes, pos, pending, buffer, res, log, hist,
                    prepared, sessions >>

\* reader.read() reports done: the pipe returns and the handler ends the response
ReadDone ==
    /\ pc = "read"
    /\ ~aborted
    /\ pos = Len(upBytes)
    /\ res' = end(res, << >>)
    /\ hist' = [hist EXCEPT !.endCalls = @ + 1]
    /\ pc' = "done"
    /\ UNCHANGED << given, fetchCalls, listening, aborted, clientClosed,
                    upstream, upBytes, pos, pending, buffer, log,
                    prepared, sessions >>

\* reader.read() rejects
ReadReject ==
    /\ pc = "read"
    /\ \E msg \in Rejections : Caught(msg)
    /\ UNCHANGED << given, fetchCalls, listening, aborted, clientClosed,
                    upstream, upBytes, pos, pending, buffer,
                    prepared, sessions >>

Next ==
    \/ RejectInvalid
    \/ ReplyToProbe
    \/ Dispatch
    \/ ClientClose
    \/ FetchResolve(HandlerResponses)
    \/ FetchReject
    \/ ReportUpstreamError
    \/ ReadChunk
    \/ ReadDone
    \/ ReadReject

Spec == Init /\ [][Next]_vars

\* the steps of the handler itself: all of Next but the client's disconnect
HandlerStep ==
    \/ RejectInvalid
    \/ ReplyToProbe
    \/ Dispatch
    \/ FetchResolve(HandlerResponses)
    \/ FetchReject
    \/ ReportUpstreamError
    \/ ReadChunk
    \/ ReadDone
    \/ ReadReject

\* Weak fairness of the handler's steps, WF_vars(HandlerStep), with its
\* ENABLED written out: a step of the handler is possible exactly as long as
\* the handler has not returned (in every position one of its awaits can
\* settle, and the step that follows changes pc or pos).
HandlerFairness == []<>(pc = "done") \/ []<><<HandlerStep>>_vars

\* The handler under an upstream whose call and whose stream eventually
\* complete or fail: every await of the handler eventually settles, and the
\* event loop then runs the handler on.
SpecLive == Init /\ [][Next]_vars /\ HandlerFairness

\* A request that succeeds: a valid body that is no probe, an upstream that
\* answers 200 with any stream of Streams, a client that stays connected.
InitPipe == InitWith({ HelloBody })

NextPipe ==
    \/ Dispatch
    \/ FetchResolve(PipeResponses)
    \/ ReadChunk
    \/ ReadDone

SpecPipe == InitPipe /\ [][NextPipe]_vars

\* The handler up to the upstream call, for every request of Requests in
\* every environment of Envs.
InitRequest == InitOf(Requests, Envs) /\ sessions = NoSessions

NextRequest ==
    \/ RejectInvalid
    \/ ReplyToProbe
    \/ Dispatch

SpecRequest == InitRequest /\ [][NextRequest]_vars

----------------------------------------------------------------------------
(* Two requests in one process *)

\* Each call of the handler has its own `controller`, and each call of
\* pipeAnthropicSSEToPlainText its own `decoder` and `buffer`: a request is a
\* record of sessions, and the event loop runs one step of one request at a
\* time.

Requesters == { 1, 2 }

\* the upstream streams of the two-request specification
SessionStreams ==
    { BlockDigit, BlockHi \o DataLine(<< "{", "D", "Z", "}" >>) }

NewSession ==
    [pc           |-> "start",
     listening    |-> FALSE,
     aborted      |-> FALSE,
     clientClosed |-> FALSE,
     caught       |-> FALSE,
     upBytes      |-> << >>,
     pos          |-> 0,
     pending      |-> << >>,
     buffer       |-> << >>,
     res          |-> NewResponse]

\* what a step of the two-request specification leaves alone
single == << given, prepared, pc, fetchCalls, listening, aborted, clientClosed,
             upstream, upBytes, pos, pending, buffer, res, log, hist >>

InitTwo ==
    /\ InitOf({ << HelloBody, DefaultParams >> }, { NoEnv })
    /\ sessions = [i \in Requesters |-> NewSession]

\* the handler of request i up to the await of fetch
SessionDispatch(i) ==
    /\ sessions[i].pc = "start"
    /\ sessions' = [sessions EXCEPT ![i].res = BeforeFetch(@),
                                    ![i].listening = TRUE,
                                    ![i].pc = "fetch"]
    /\ UNCHANGED single

\* a close listener that aborts the controller of the first request
ControllerOfFirst(i) == 1

\* the request whose controller the close listener of request i aborts
ControllerOf(i) == i

\* the client of request i disconnects
SessionClose(i) ==
    /\ sessions[i].pc \in { "fetch", "read" }
    /\ ~sessions[i].clientClosed
    /\ sessions' =
         [j \in Requesters |->
            [sessions[j] EXCEPT
               !.clientClosed = IF j = i THEN TRUE ELSE @,
               !.aborted = IF j = ControllerOf(i)
                           THEN AbortOnClose(sessions[i].listening, @)
                           ELSE @]]
    /\ UNCHANGED single

\* the fetch of request i resolves with a stream
SessionFetchResolve(i) ==
    /\ sessions[i].pc = "fetch"
    /\ ~sessions[i].aborted
    /\ \E bytes \in SessionStreams :
          sessions' = [sessions EXCEPT ![i].upBytes = bytes, ![i].pc = "read"]
    /\ UNCHANGED single

\* one turn of the pipe's loop for request i
SessionReadChunk(i) ==
    LET s == sessions[i]
    IN  /\ s.pc = "read"
        /\ ~s.aborted
        /\ \E n \in ChunkLengths(Len(s.upBytes) - s.pos) :
              LET step == PipeStep(variant, s.pending, s.buffer,
                                   SubSeq(s.upBytes, s.pos + 1, s.pos + n))
              IN  sessions' = [sessions EXCEPT ![i].pos = @ + n,
                                               ![i].pending = step.pending,
                                               ![i].buffer = step.buffer,
                                               ![i].res = writeAll(@, step.writes)]
        /\ UNCHANGED single

\* the stream of request i is done: its response is ended
SessionReadDone(i) ==
    LET s == sessions[i]
    IN  /\ s.pc = "read"
        /\ ~s.aborted
        /\ s.pos = Len(s.upBytes)
        /\ sessions' = [sessions EXCEPT ![i].res = end(@, << >>), ![i].pc = "done"]
        /\ UNCHANGED single

\* the fetch or the read of request i rejects: its catch block
SessionReject(i) ==
    LET s == sessions[i]
    IN  /\ s.pc \in { "fetch", "read" }
        /\ \E msg \in (IF s.aborted THEN { AbortError } ELSE Details) :
              sessions' = [sessions EXCEPT ![i].res = Catch(@, msg),
                                           ![i].caught = TRUE,
                                           ![i].pc = "done"]
        /\ UNCHANGED single

NextTwo ==
    \E i \in Requesters :
        \/ SessionDispatch(i)
        \/ SessionClose(i)
        \/ SessionFetchResolve(i)
        \/ SessionReadChunk(i)
        \/ SessionReadDone(i)
        \/ SessionReject(i)

SpecTwo == InitTwo /\ [][NextTwo]_vars

----------------------------------------------------------------------------
(* Properties *)

\* the writes the pipe makes when `bytes` arrive as one chunk
SingleChunkWrites(v, bytes) == PipeStep(v, << >>, << >>, bytes).writes

\* C1: however the bytes delivered so far were cut into chunks, the writes
\* made so far are, in number, order and content, the writes the pipe makes
\* when the same bytes arrive as a single chunk.
ChunkInvariance ==
    pc \in { "read", "done" }
        => res.writes = SingleChunkWrites(variant, SubSeq(upBytes, 1, pos))

\* C1 witness: after some writes, a chunk ended between the two newlines of
\* a delimiter, whose first newline waits in the buffer.
ChunkEndsInsideDelimiter ==
    /\ pc = "read"
    /\ pos > 0
    /\ pos < Len(upBytes)
    /\ res.writes # << >>
    /\ buffer # << >>
    /\ Len(buffer) > 1
    /\ Last(buffer) = "\n"
    /\ upBytes[pos + 1] = "\n"

\* the upstream call returned a non-success status or no streamable body
UpstreamUnavailable == upstream # NoResponse /\ (~upstream.ok \/ ~upstream.hasBody)

\* C2: when the upstream call returns a non-success status or no body, the
\* client receives status 502 with the body "Upstream error", and neither a
\* 200 status nor the streaming headers have gone out to it.
UpstreamFailureIs502 ==
    (pc = "done" /\ UpstreamUnavailable)
        => /\ res.wireStatus = 502
           /\ Body(res) = UpstreamErrorBody
           /\ res.wireHeaders \cap StreamingHeaders = {}

\* C3: once an upstream call has been dispatched, a close of the client
\* connection while the call is open leaves the call's signal aborted.
CloseAbortsUpstream == (clientClosed /\ fetchCalls > 0) => aborted

\* C3 witness: the client closed in the middle of the body, and the signal
\* is aborted.
ClosedWhileReading ==
    /\ clientClosed
    /\ aborted
    /\ pc = "read"
    /\ pos > 0
    /\ pos < Len(upBytes)

\* C4: after the client has disconnected and the upstream call has been
\* cancelled, nothing more is written to the response.
NoWriteAfterDisconnect ==
    (hist.writesAtClose >= 0 /\ aborted) => Len(res.writes) = hist.writesAtClose

\* C5: where the identity-probe policy is in place, a request whose last
\* surviving message is an identity probe makes no upstream call, and is
\* answered with the branded sentence alone, sent with status 200 and ended
\* without a failure.
ProbeIntercepted ==
    (HasProbePolicy(variant) /\ body \in ProbeBodies)
        => /\ fetchCalls = 0
           /\ pc \in { "start", "done" }
           /\ pc = "done"
                => /\ res.writes = << BrandSentence >>
                   /\ res.ended
                   /\ res.wireStatus = 200
                   /\ ~hist.caught
                   /\ log = << >>

\* C5 witness: a probe that dropped messages follow in the raw input (an
\* assistant message naming a vendor) has been answered.
ProbeAnswered ==
    /\ HasProbePolicy(variant)
    /\ body \in ProbeBodies
    /\ Len(body.messages) = 3
    /\ pc = "done"
    /\ Body(res) = BrandSentence

\* C6: a request whose messages are no list, or of which no message
\* survives normalisation, is answered 400 with the JSON error body; no
\* upstream call is made and no streaming header or stream byte goes out.
InvalidRejected ==
    body \in InvalidBodies
        => /\ fetchCalls = 0
           /\ pc \in { "start", "done" }
           /\ res.wireHeaders \cap StreamingHeaders = {}
           /\ pc = "done"
                => /\ res.wireStatus = 400
                   /\ res.writes = << InvalidMessagesJson >>
                   /\ res.ended

\* C6 witness: the request whose only user message is cut to white space by
\* the content ceiling has been answered 400.
InvalidAnswered ==
    /\ body \in InvalidBodies
    /\ Len(body.messages) = 2
    /\ pc = "done"
    /\ res.wireStatus = 400

\* C7: when an exception is caught, the client receives status 500 with the
\* body "Server error" if the headers had not been sent; if they had, the
\* response is ended and no further body bytes are written.
FailureEndsQuietly ==
    hist.caught
        => IF hist.sentAtThrow
           THEN res.ended /\ Len(res.writes) = hist.writesAtThrow
           ELSE res.wireStatus = 500 /\ Body(res) = ServerErrorBody

\* The events of a decoded upstream text, as the stream defines them: every
\* data line of every frame whose delimiter has arrived, in order, is a text
\* delta (a content_block_delta with a non-empty string delta.text), an
\* error, or nothing.
EventOfLine(line) ==
    LET payload == ParseJSON(Trim(SubSeq(line, Len(DataPrefix) + 1, Len(line))))
    IN  IF ~payload.ok THEN << >>
        ELSE IF payload.type = "error" THEN << [kind |-> "error", text |-> << >>] >>
        ELSE IF /\ payload.type = "content_block_delta"
                /\ payload.textIsString
                /\ payload.text # << >>
        THEN << [kind |-> "delta", text |-> payload.text] >>
        ELSE << >>

EventsOfFrame(frame) ==
    LET lines == SelectSeq(Split(frame, << "\n" >>),
                           LAMBDA l : StartsWith(l, DataPrefix))
    IN  Concat([i \in 1..Len(lines) |-> EventOfLine(lines[i])])

EventsOfText(text) ==
    LET pieces == Split(text, Delimiter)
    IN  Concat([i \in 1..(Len(pieces) - 1) |-> EventsOfFrame(pieces[i])])

\* the events of the first n bytes of the upstream stream
EventsSoFar(n) == EventsOfText(decode(<< >>, SubSeq(upBytes, 1, n)).text)

\* what the client is to be written for a sequence of events
Forwarded(v, events) ==
    [i \in 1..Len(events) |->
        IF events[i].kind = "delta" THEN Rewrite(v, events[i].text)
        ELSE ErrorSentinel]

\* the indices of the elements of seq that satisfy a kind
ErrorEvents(events) == { i \in 1..Len(events) : events[i].kind = "error" }

SentinelWrites(writes) == { i \in 1..Len(writes) : writes[i] = ErrorSentinel }

\* C8: an error event does not end the stream: one sentinel is written for
\* each error event, the text deltas that follow the first error event are
\* forwarded after its sentinel, and the response is ended only when the
\* upstream stream has ended.
ErrorEventDoesNotEndStream ==
    /\ res.ended => pos = Len(upBytes)
    /\ pc = "done"
        => LET events   == EventsSoFar(Len(upBytes))
               expected == Forwarded(variant, events)
               errs     == ErrorEvents(events)
               sent     == SentinelWrites(res.writes)
           IN  /\ Cardinality(sent) = Cardinality(errs)
               /\ errs # {}
                    => SubSeq(res.writes, Min(sent), Len(res.writes))
                         = SubSeq(expected, Min(errs), Len(expected))

JoinedDeltas(events) ==
    Concat([i \in 1..Len(events) |->
               IF events[i].kind = "delta" THEN events[i].text ELSE << >>])

ErrorBlock(d) == DataLine(<< "{", "E" >> \o d \o << "}" >>) \o Delimiter

\* C10: no upstream-supplied detail reaches the client.  No code unit of
\* a detail is in the body; and from every state, two continuations that
\* differ only in the detail (the message of the exception caught, the
\* status and body of the upstream failure, the content of the next error
\* event) leave the same response, and the pipe in the same state.
NoDetailReachesClient ==
    /\ \A i \in 1..Len(res.writes) :
          \A k \in 1..Len(res.writes[i]) : res.writes[i][k] \notin DetailUnits
    /\ \A m1, m2 \in Details \cup { AbortError } : Catch(res, m1) = Catch(res, m2)
    /\ \A r1, r2 \in FailResponses :
          UpstreamFailed(res, r1.status, r1.text)
            = UpstreamFailed(res, r2.status, r2.text)
    /\ \A d1, d2 \in Details :
          PipeStep(variant, pending, buffer, ErrorBlock(d1))
            = PipeStep(variant, pending, buffer, ErrorBlock(d2))

\* C10 witness: the request has ended after an upstream failure or an
\* exception whose detail is in the server's log.
DetailOnlyInLog ==
    /\ pc = "done"
    /\ log # << >>
    /\ log[1].detail \in Details
    /\ res.writes # << >>

\* the code units of the content of m that lie within the first MaxContent
\* code units and are no white space, as indices of m.text
InkWithinCut(m) ==
    { k \in 1..Len(m.text) : m.pad + k <= MaxContent /\ m.text[k] \notin WhiteSpace }

\* the indices of the elements of body.messages that are to be kept
Surviving(b) ==
    IF ~b.isArray THEN {}
    ELSE { i \in 1..Len(b.messages) :
             /\ b.messages[i].role \in { "user", "assistant" }
             /\ InkWithinCut(b.messages[i]) # {} }

\* the k-th smallest element of a set of numbers
Nth(S, k) == CHOOSE i \in S : Cardinality({ j \in S : j < i }) = k - 1

\* the text a kept message must have: from its first to its last code unit
\* that is no white space, within the cut
KeptText(m) == SubSeq(m.text, Min(InkWithinCut(m)), Max(InkWithinCut(m)))

\* C11: once the handler has normalised the messages, the list is null
\* exactly when no message is to be kept (and the request is then answered
\* 400); otherwise it is non-empty, holds only user and assistant messages,
\* none with an empty text, and lists the kept messages of the input in the
\* order of the input, each with its content cut to 12000 code units and
\* trimmed; this list is what goes upstream.
NormalizedWellFormed ==
    pc # "start"
        => LET kept == Surviving(body)
           IN  /\ (normalized = << >>) = (kept = {})
               /\ (normalized = << >>) = (res.statusCode = 400)
               /\ Len(normalized) = Cardinality(kept)
               /\ \A k \in 1..Len(normalized) :
                     /\ normalized[k].role \in { "user", "assistant" }
                     /\ normalized[k].text # << >>
                     /\ Len(normalized[k].text) <= MaxContent
                     /\ normalized[k].role = body.messages[Nth(kept, k)].role
                     /\ normalized[k].text = KeptText(body.messages[Nth(kept, k)])
               /\ pc = "fetch" => request.messages = normalized

\* C11 witness: of three messages the middle one was dropped and the last
\* one was cut and trimmed, and the two kept went upstream in input order
KeptInOrder ==
    /\ pc = "fetch"
    /\ Len(body.messages) = 3
    /\ Surviving(body) = { 1, 3 }
    /\ body.messages[3].pad = MaxContent - 2
    /\ request.messages =
         << [role |-> "assistant", text |-> UseChatGPT],
            [role |-> "user", text |-> << "h", "e" >>] >>

\* the number of tenths nearest to the value v within lo..hi, and dflt
\* for a value that is no number
NearestTenths(v, lo, hi, dflt) ==
    IF v.type # "number" \/ v.kind = "NaN" THEN dflt
    ELSE IF v.kind = "+Infinity" THEN hi
    ELSE IF v.kind = "-Infinity" THEN lo
    ELSE IF v.tenths < lo THEN lo
    ELSE IF v.tenths > hi THEN hi
    ELSE v.tenths

\* C12: the temperature sent upstream is a number in [0, 1] and the
\* max_tokens sent upstream a whole number in [64, 1500]: a numeric input
\* brought to the nearest bound (max_tokens then rounded down), anything
\* else replaced by 0.3 and 800; and whatever the three fields hold, a
\* request with a valid message is not rejected.
ParametersClamped ==
    /\ pc = "fetch"
         => LET t == request.temperature
                m == request.max_tokens
                n == NearestTenths(params.max_tokens, 640, 15000, 8000)
            IN  /\ t.type = "number" /\ t.kind = "finite"
                /\ t.tenths \in 0..10
                /\ t.tenths = NearestTenths(params.temperature, 0, 10, 3)
                /\ m.type = "number" /\ m.kind = "finite"
                /\ m.tenths \in 640..15000
                /\ m.tenths % 10 = 0
                /\ m.tenths <= n /\ n < m.tenths + 10
    /\ (pc # "start" /\ body = HelloBody) => (pc = "fetch" /\ res.statusCode = 200)

\* C12 witness: temperature 2 went upstream as 1 and max_tokens 500.7 as 500
ClampedAndFloored ==
    /\ pc = "fetch"
    /\ params.temperature = Num(2, 0)
    /\ request.temperature = Num(1, 0)
    /\ params.max_tokens = Num(500, 7)
    /\ request.max_tokens = Num(500, 0)

\* C13: the model sent upstream is one of the allow-list: the requested
\* model when that is in the list, the configured default otherwise; and
\* whatever body.model holds, a request with a valid message is not
\* answered with an error.
ModelFromAllowList ==
    /\ pc = "fetch"
         => /\ request.model \in ALLOWED_MODELS
            /\ request.model =
                  IF params.model \in { Str(a) : a \in ALLOWED_MODELS }
                  THEN params.model.str
                  ELSE IF env.MODEL = "" THEN "claude-haiku-4-5" ELSE env.MODEL
    /\ (pc # "start" /\ body = HelloBody) => (pc = "fetch" /\ res.statusCode = 200)

\* the data lines of the frames of a decoded text whose delimiter has arrived
DataLinesOfText(text) ==
    LET pieces == Split(text, Delimiter)
    IN  Concat([i \in 1..(Len(pieces) - 1) |->
                   SelectSeq(Split(pieces[i], << "\n" >>),
                             LAMBDA l : StartsWith(l, DataPrefix))])

\* the text deltas among events
DeltaEvents(events) == SelectSeq(events, LAMBDA ev : ev.kind = "delta")

\* the pipe is running, or it has returned and the handler ended the response
Streaming ==
    \/ pc = "read"
    \/ pc = "done" /\ upstream.ok /\ upstream.hasBody /\ ~hist.caught

\* C14: every data line of a complete frame is processed, in order: the
\* writes that are no error sentinel are, one per data line that holds a
\* valid text delta and in the order of those lines, the rewritten texts,
\* for the first line of a frame and for the later ones.
EveryDataLineProcessed ==
    Streaming
        => LET deltas == DeltaEvents(EventsSoFar(pos))
           IN  SelectSeq(res.writes, LAMBDA w : w # ErrorSentinel)
                 = [k \in 1..Len(deltas) |-> Rewrite(variant, deltas[k].text)]

\* whether a data line holds something JSON.parse rejects
Unparseable(line) ==
    LET jsonStr == Trim(SubSeq(line, Len(DataPrefix) + 1, Len(line)))
    IN  jsonStr # << >> /\ jsonStr # DoneSentinel /\ ~ParseJSON(jsonStr).ok

\* whether a data line holds a valid text delta
ValidDelta(line) ==
    EventOfLine(line) # << >> /\ EventOfLine(line)[1].kind = "delta"

\* the received data lines hold an unparseable one between two valid deltas
MalformedBetweenDeltas(n) ==
    LET lines == DataLinesOfText(decode(<< >>, SubSeq(upBytes, 1, n)).text)
    IN  \E i \in 2..(Len(lines) - 1) :
            /\ ValidDelta(lines[i - 1])
            /\ Unparseable(lines[i])
            /\ ValidDelta(lines[i + 1])

\* C15: a malformed data line is skipped and no more: once an unparseable
\* data line has come between two data lines with valid text deltas, in one
\* frame or in three, the client has been written every event around it, in
\* order, both deltas among them; and the malformed line ends neither the
\* pipe nor the response before the upstream stream has ended.
MalformedLineSkipped ==
    /\ (Streaming /\ MalformedBetweenDeltas(pos))
          => /\ res.writes = Forwarded(variant, EventsSoFar(pos))
             /\ Len(res.writes) >= 2
    /\ (Streaming /\ pc = "done") => pos = Len(upBytes)

\* where the run of newlines that holds bytes[j] starts
RunStart(bytes, j) == 1 + Max({ 0 } \cup { i \in 1..j : bytes[i] # "\n" })

\* where the last delimiter among bytes ends, 0 when there is none: in a run
\* of newlines every second one ends a delimiter, counted from the left
LastDelimiterEnd(bytes) ==
    Max({ 0 } \cup { j \in 1..Len(bytes) :
                       /\ bytes[j] = "\n"
                       /\ (j - RunStart(bytes, j)) % 2 = 1 })

\* C16: no partial frame is handed on: at every point of the stream the
\* writes made so far are those of the bytes up to the end of the last
\* delimiter received, none before the first delimiter has fully arrived;
\* what follows the last delimiter adds no write, neither while the stream
\* runs nor when it ends, and stays in the buffer.
NoPartialFrame ==
    pc \in { "read", "done" }
        => LET bytes == SubSeq(upBytes, 1, pos)
               upTo  == LastDelimiterEnd(bytes)
           IN  /\ upTo = 0 => res.writes = << >>
               /\ res.writes = SingleChunkWrites(variant, SubSeq(bytes, 1, upTo))
               /\ pending = << >>
                    => buffer = decode(<< >>, SubSeq(bytes, upTo + 1, pos)).text

\* C16 witness: the stream has ended with a complete, valid data line after
\* its last delimiter; the line is in the buffer and was not written
LeftoverDiscarded ==
    /\ pc = "done"
    /\ res.ended
    /\ buffer = DataLine(<< "{", "D", "Z", "}" >>) \o << "\n" >>
    /\ res.writes # << >>
    /\ \A i \in 1..Len(res.writes) : res.writes[i] # << "Z" >>

\* C17: a disconnect of the client is no error: when the upstream call or
\* the read of its stream has been ended by the abort that the client's
\* disconnect set off, the error log has no entry for it and the response
\* was given no error body.
DisconnectIsNoError ==
    (clientClosed /\ aborted /\ hist.caught)
        => /\ \A i \in 1..Len(log) : log[i].kind # "error"
           /\ \A i \in 1..Len(res.writes) : res.writes[i] # ServerErrorBody

\* what request i has written when it ran alone up to the same point: the
\* writes of the bytes it has read, and the body of its catch block if that ran
AloneWrites(i) ==
    SingleChunkWrites(variant, SubSeq(sessions[i].upBytes, 1, sessions[i].pos))
    \o (IF sessions[i].caught THEN << ServerErrorBody >> ELSE << >>)

\* C18: two requests handled concurrently do not touch each other: however
\* their chunks, writes and disconnects interleave, each has written what it
\* writes when run alone, holds back the bytes and the buffer of its own
\* stream only, and has its upstream call aborted by its own client's
\* disconnect and by nothing else.
SessionIsolation ==
    \A i \in DOMAIN sessions :
        LET s == sessions[i]
        IN  /\ s.res.writes = AloneWrites(i)
            /\ s.buffer = PipeStep(variant, << >>, << >>,
                                   SubSeq(s.upBytes, 1, s.pos)).buffer
            /\ s.aborted = (s.clientClosed /\ s.listening)
            /\ s.res.ended = (s.pc = "done")

\* C18 witness: the two requests are both in the middle of different
\* streams, each holding a part of its own, and one of them only was aborted
InterleavedRequests ==
    /\ sessions # NoSessions
    /\ sessions[1].pc = "read" /\ sessions[2].pc = "read"
    /\ sessions[1].upBytes # sessions[2].upBytes
    /\ sessions[1].res.writes # << >>
    /\ sessions[1].buffer # << >> /\ sessions[2].buffer # << >>
    /\ sessions[1].buffer # sessions[2].buffer
    /\ sessions[2].aborted /\ ~sessions[1].aborted

\* C19: every request reaches exactly one terminal outcome: on every path
\* res.end (or res.json) is called at most once, the handler has returned
\* only with the response ended, nothing is written to a response that has
\* been ended, and, the upstream call and stream completing or failing in
\* the end, the response is eventually ended.
OneTerminalOutcome ==
    /\ [](/\ hist.endCalls <= 1
          /\ res.ended = (hist.endCalls = 1)
          /\ res.ended = (pc = "done"))
    /\ [][res.ended => res' = res]_vars
    /\ <>res.ended

\* C19 witness: a request whose stream failed half-way has been ended, once
EndedOnceAfterFailure ==
    /\ pc = "done"
    /\ hist.caught
    /\ pos > 0
    /\ res.writes # << ServerErrorBody >>
    /\ res.ended
    /\ hist.endCalls = 1

\* the text of the last message of b that survives normalisation
LastSurvivingText(b) == KeptText(b.messages[Max(Surviving(b))])

\* the request was answered with the branded sentence and no upstream call
AnsweredAsProbe ==
    /\ pc = "done"
    /\ fetchCalls = 0
    /\ request = NoRequest
    /\ res.writes = << BrandSentence >>

\* C20: the probe decision is a function of the text of the last surviving
\* message alone: a request with a surviving message is answered as a probe
\* exactly when a request made of that one text is a probe, and is sent
\* upstream otherwise, whatever the messages before it hold and whatever
\* dropped messages follow it.
ProbeDependsOnLastMessage ==
    (variant = "brand" /\ pc # "start" /\ Surviving(body) # {})
        => LET alone == << [role |-> "user", text |-> LastSurvivingText(body)] >>
           IN  /\ AnsweredAsProbe = isIdentityProbe(alone)
               /\ (pc = "fetch") = ~isIdentityProbe(alone)

\* C20 witness: a request went upstream whose last surviving message is a
\* plain one, after a message that names a vendor and before a dropped
\* message that asks for the model
PlainLastMessageDispatched ==
    /\ variant = "brand"
    /\ pc = "fetch"
    /\ body.messages = << Msg("assistant", 0, UseChatGPT),
                          Msg("user", 0, Hello),
                          Msg("system", 0, WhatModel) >>
    /\ LastSurvivingText(body) = Hello

\* whether the delimiter occurs in a text
HasDelimiter(text) ==
    \E i \in 1..(Len(text) - 1) : text[i] = "\n" /\ text[i + 1] = "\n"

\* the decoded text received when n bytes have been read
TextSoFar(n) == decode(<< >>, SubSeq(upBytes, 1, n)).text

\* C21: after each chunk the buffer holds no delimiter and is the text
\* received so far after its last delimiter; the frames processed so far,
\* none of which holds a delimiter, each followed by a delimiter, and then
\* the buffer, make up the whole decoded text received so far.
BufferInvariant ==
    pc \in { "read", "done" }
        => LET text == TextSoFar(pos)
           IN  /\ ~HasDelimiter(buffer)
               /\ buffer = SubSeq(text, LastDelimiterEnd(text) + 1, Len(text))
               /\ \A i \in 1..Len(hist.frames) : ~HasDelimiter(hist.frames[i])
               /\ Concat([i \in 1..Len(hist.frames) |-> hist.frames[i] \o Delimiter])
                    \o buffer = text

\* C21 witness: a run of three newlines has been received after a frame: the
\* loop has been given that frame, and the buffer is the third newline,
\* although the text received ends with two newlines
BufferAfterNewlineRun ==
    /\ pc = "read"
    /\ pos >= 3
    /\ SubSeq(upBytes, pos - 2, pos) = << "\n", "\n", "\n" >>
    /\ Len(hist.frames) = 1
    /\ hist.frames[1] # << >>
    /\ buffer = << "\n" >>
====
